---- MODULE Spec2Model ----
(***************************************************************************)
(* A model of WebCrawler (src/main.py): the recursive crawl with its       *)
(* visited set and index, and the keyword search over the index.           *)
(*                                                                         *)
(* Python strings are TLA+ strings; TLC evaluates Len, \o and SubSeq on    *)
(* them, so prefix tests, substring tests, lower() and urljoin are         *)
(* computed character by character as the library computes them.           *)
(* An optional value (None or a string) is a sequence of length 0 or 1.    *)
(***************************************************************************)
EXTENDS Integers, Sequences, FiniteSets, TLC

(***************************************************************************)
(* Strings                                                                 *)
(***************************************************************************)
None == <<>>

Some(s) == <<s>>

\* F applied to the value of v, with v evaluated once (Python evaluates an
\* expression once when it assigns it to a local variable).
Bind(v, F(_)) == CHOOSE r \in {F(x) : x \in {v}} : TRUE

\* Python truthiness of an optional string: None and "" are falsy.
Truthy(o) == o # None /\ o[1] # ""

\* Python's `a or b` with a an optional string and b a string.
Or(o, s) == IF Truthy(o) THEN o[1] ELSE s

Char(s, i) == SubSeq(s, i, i)

\* str.startswith
StartsWith(s, p) == Len(p) <= Len(s) /\ SubSeq(s, 1, Len(p)) = p

\* `k in s` on strings: k occurs in s as a contiguous substring.
Contains(s, k) ==
  Bind(<<s, k>>, LAMBDA a :
    \E i \in 0..(Len(a[1]) - Len(a[2])) : SubSeq(a[1], i + 1, i + Len(a[2])) = a[2])

UpperLetters == "ABCDEFGHIJKLMNOPQRSTUVWXYZ"

LowerLetters == "abcdefghijklmnopqrstuvwxyz"

Digits == "0123456789"

\* The lower-case letter of each upper-case letter.
ToLower ==
  [c \in {Char(UpperLetters, i) : i \in 1..Len(UpperLetters)} |->
     Char(LowerLetters, CHOOSE i \in 1..Len(UpperLetters) : Char(UpperLetters, i) = c)]

LowerChar(c) == Bind(c, LAMBDA x : IF x \in DOMAIN ToLower THEN ToLower[x] ELSE x)

\* str.lower on ASCII text
RECURSIVE LowerFrom(_, _)
LowerFrom(s, i) ==
  IF i > Len(s) THEN ""
  ELSE LowerChar(Char(s, i)) \o Bind(i + 1, LAMBDA j : LowerFrom(s, j))

Lower(s) == Bind(s, LAMBDA x : LowerFrom(x, 1))

\* str.find for a set of one-character strings: the 1-based position of
\* the first character of s from position i on that is in cs, 0 if none.
RECURSIVE FindFrom(_, _, _)
FindFrom(s, cs, i) ==
  IF i > Len(s) THEN 0
  ELSE IF Char(s, i) \in cs THEN i
  ELSE Bind(i + 1, LAMBDA j : FindFrom(s, cs, j))

Find(s, cs) == FindFrom(s, cs, 1)

\* s[i:j] with i, j 0-based as in Python (j clamped to the length).
Slice(s, i, j) == SubSeq(s, i + 1, IF j < Len(s) THEN j ELSE Len(s))

\* s[i:] with i 0-based as in Python, that is, s without its first i characters.
Drop(s, i) == SubSeq(s, i + 1, Len(s))

\* str.split(sep) for a one-character separator: a non-empty sequence of strings.
RECURSIVE Split(_, _)
Split(s, sep) ==
  Bind(Find(s, {sep}), LAMBDA i :
    IF i = 0 THEN <<s>>
    ELSE <<SubSeq(s, 1, i - 1)>> \o Bind(Drop(s, i), LAMBDA t : Split(t, sep)))

\* sep.join(parts)
RECURSIVE Join(_, _)
Join(parts, sep) ==
  IF parts = <<>> THEN ""
  ELSE IF Len(parts) = 1 THEN parts[1]
  ELSE parts[1] \o sep \o Bind(Tail(parts), LAMBDA t : Join(t, sep))

(***************************************************************************)
(* urllib.parse.urljoin, as called at src/main.py line 26.  The URLs of    *)
(* the model contain no ';' parameters, no whitespace and no non-ASCII     *)
(* characters, so the corresponding branches of the library are left out.  *)
(***************************************************************************)
Letters ==
  {Char(LowerLetters, i) : i \in 1..Len(LowerLetters)} \cup
  {Char(UpperLetters, i) : i \in 1..Len(UpperLetters)}

SchemeChars == Letters \cup {Char(Digits, i) : i \in 1..Len(Digits)} \cup {"+", "-", "."}

uses_relative == {"", "http", "https", "ftp", "file"}

uses_netloc == {"", "http", "https", "ftp", "file"}

\* The scheme of url when it has one: the text before the first ':' when it
\* starts with a letter and consists of scheme characters; None otherwise.
SchemeOf(url) ==
  Bind(Find(url, {":"}), LAMBDA i :
    IF i > 1 /\ Char(url, 1) \in Letters
       /\ \A j \in 1..(i - 1) : Char(url, j) \in SchemeChars
    THEN Some(Lower(SubSeq(url, 1, i - 1)))
    ELSE None)

\* The end of urlsplit: fragment and query are cut off what follows the
\* netloc, and a netloc with one bracket only raises ValueError.
SplitPath(scheme, netloc, afterNetloc) ==
  Bind(Find(afterNetloc, {"#"}), LAMBDA h :
  Bind(IF h = 0 THEN afterNetloc ELSE SubSeq(afterNetloc, 1, h - 1), LAMBDA beforeFragment :
  Bind(Find(beforeFragment, {"?"}), LAMBDA q :
    [scheme |-> scheme,
     netloc |-> netloc,
     path |-> IF q = 0 THEN beforeFragment ELSE SubSeq(beforeFragment, 1, q - 1),
     query |-> IF q = 0 THEN "" ELSE Drop(beforeFragment, q),
     fragment |-> IF h = 0 THEN "" ELSE Drop(afterNetloc, h),
     raises |-> \/ Contains(netloc, "[") /\ ~Contains(netloc, "]")
                \/ Contains(netloc, "]") /\ ~Contains(netloc, "[")])))

\* The middle of urlsplit: the netloc is what follows a leading '//' up to
\* the first of '/', '?' and '#'.
SplitNetloc(scheme, rest) ==
  IF Slice(rest, 0, 2) # "//" THEN SplitPath(scheme, "", rest)
  ELSE Bind(FindFrom(rest, {"/", "?", "#"}, 3), LAMBDA delim :
         IF delim = 0 THEN SplitPath(scheme, Drop(rest, 2), "")
         ELSE Bind(<<SubSeq(rest, 3, delim - 1), Drop(rest, delim - 1)>>, LAMBDA a :
                SplitPath(scheme, a[1], a[2])))

\* urlsplit(url, scheme): [scheme, netloc, path, query, fragment], and
\* raises, TRUE when the library raises ValueError("Invalid IPv6 URL").
urlsplit(url, defaultScheme) ==
  Bind(SchemeOf(url), LAMBDA sch :
    IF sch = None THEN Bind(defaultScheme, LAMBDA d : SplitNetloc(d, url))
    ELSE Bind(Drop(url, Find(url, {":"})), LAMBDA rest : SplitNetloc(sch[1], rest)))

urlunsplit(scheme, netloc, path, query, fragment) ==
  Bind(IF netloc # "" \/ (scheme # "" /\ scheme \in uses_netloc /\ Slice(path, 0, 2) # "//")
       THEN "//" \o netloc \o (IF path # "" /\ Char(path, 1) # "/" THEN "/" \o path ELSE path)
       ELSE path, LAMBDA u1 :
  Bind(IF scheme # "" THEN scheme \o ":" \o u1 ELSE u1, LAMBDA u2 :
  Bind(IF query # "" THEN u2 \o "?" \o query ELSE u2, LAMBDA u3 :
    IF fragment # "" THEN u3 \o "#" \o fragment ELSE u3)))

\* segments[1:-1] = filter(None, segments[1:-1]): drop the empty segments
\* that are neither first nor last.
FilterMiddle(segs) ==
  IF Len(segs) <= 2 THEN segs
  ELSE <<segs[1]>> \o SelectSeq(SubSeq(segs, 2, Len(segs) - 1), LAMBDA x : x # "")
       \o <<segs[Len(segs)]>>

\* The loop that removes '.' and '..' segments.
RECURSIVE ResolveDots(_, _)
ResolveDots(segs, acc) ==
  IF segs = <<>> THEN acc
  ELSE Bind(<<Tail(segs),
              IF Head(segs) = ".."
              THEN (IF acc = <<>> THEN acc ELSE SubSeq(acc, 1, Len(acc) - 1))
              ELSE IF Head(segs) = "." THEN acc
              ELSE Append(acc, Head(segs))>>,
            LAMBDA a : ResolveDots(a[1], a[2]))

\* The path of the joined URL: the segments of the base path without its
\* last one, then those of the relative path, dots resolved.
JoinPaths(basePath, path) ==
  Bind(Split(basePath, "/"), LAMBDA bp :
  Bind(IF Slice(path, 0, 1) = "/" THEN Split(path, "/")
       ELSE FilterMiddle((IF bp[Len(bp)] # "" THEN SubSeq(bp, 1, Len(bp) - 1) ELSE bp)
                         \o Split(path, "/")), LAMBDA segments :
  Bind(ResolveDots(segments, <<>>), LAMBDA r :
  Bind(Join(IF segments[Len(segments)] \in {".", ".."} THEN Append(r, "") ELSE r, "/"),
       LAMBDA joined : IF joined = "" THEN "/" ELSE joined))))

\* urljoin(base, url) raises ValueError
urljoinRaises(base, url) ==
  /\ base # ""
  /\ url # ""
  /\ Bind(urlsplit(base, ""), LAMBDA b : b.raises \/ urlsplit(url, b.scheme).raises)

\* urljoin(base, url), defined when it does not raise
urljoin(base, url) ==
  IF base = "" THEN url
  ELSE IF url = "" THEN base
  ELSE
    Bind(urlsplit(base, ""), LAMBDA b :
    Bind(urlsplit(url, b.scheme), LAMBDA u :
      IF u.scheme # b.scheme \/ u.scheme \notin uses_relative THEN url
      ELSE IF u.scheme \in uses_netloc /\ u.netloc # ""
        THEN urlunsplit(u.scheme, u.netloc, u.path, u.query, u.fragment)
      ELSE IF u.path = ""
        THEN urlunsplit(u.scheme, b.netloc, b.path,
                        IF u.query = "" THEN b.query ELSE u.query, u.fragment)
      ELSE Bind(JoinPaths(b.path, u.path), LAMBDA joined :
             urlunsplit(u.scheme, b.netloc, joined, u.query, u.fragment))))

(***************************************************************************)
(* The environment: the seeds a caller passes to crawl, and what the web   *)
(* answers.  requests.get either raises or returns a page; a page is the   *)
(* text BeautifulSoup extracts from it (get_text) and the href of each of  *)
(* its <a> elements in document order (None for an <a> without href).      *)
(***************************************************************************)
ExampleCom == "https://example.com"

\* The arguments callers pass to crawl.
CrawlUrls == {ExampleCom, ""}

CrawlBases == {None, Some(""), Some(ExampleCom)}

\* The pages the web serves: text and hrefs.
Pages ==
  { [text |-> "Hello World", links |-> <<>>],
    [text |-> "Hello World", links |-> <<Some("/about"), Some("https://www.external.com")>>],
    [text |-> "Hello World", links |-> <<Some(ExampleCom), Some("/about")>>],
    [text |-> "hello there", links |-> <<Some("https://example.com.evil.com"), Some("/about")>>],
    [text |-> "hello there", links |-> <<None, Some(""), Some("/about")>>],
    [text |-> "hello there", links |-> <<Some("http://["), Some("/about")>>] }

\* The URLs at which requests.get can return a page (the empty URL only
\* when requests.get is patched, as the tests do); it raises anywhere else,
\* and may raise at these too.
PageUrls == {"", ExampleCom, "https://example.com/about", "https://example.com.evil.com"}

Keywords == {"", "hello", "WORLD", "test"}

\* str(e) of the exceptions requests.get raises
FetchErrors == {"Test Error"}

Responses ==
  {[ok |-> TRUE, text |-> p.text, links |-> p.links, error |-> ""] : p \in Pages} \cup
  {[ok |-> FALSE, text |-> "", links |-> <<>>, error |-> e] : e \in FetchErrors}

\* The href strings of the pages, and the scope strings (base_url or url)
\* they can be resolved against: the arguments of a caller, or a link of
\* the page at the empty URL, which urljoin leaves as it is.
PageLinks == UNION {{p.links[i] : i \in 1..Len(p.links)} : p \in Pages}

LinkStrings == {h[1] : h \in {l \in PageLinks : Truthy(l)}}

Scopes == CrawlUrls \cup {b[1] : b \in CrawlBases \ {None}} \cup LinkStrings

\* urljoin(scope, href) for the arguments that occur, computed once:
\* whether it raises, and the URL it returns otherwise.
Resolution ==
  [scope \in Scopes |->
    [href \in LinkStrings |->
      [raises |-> urljoinRaises(scope, href), url |-> urljoin(scope, href)]]]

(***************************************************************************)
(* State                                                                   *)
(***************************************************************************)
VARIABLES
  visited,    \* self.visited: a set of URL strings
  index,      \* self.index: a dict, as the sequence of its items in insertion order
  stack,      \* the nested crawl invocations, outermost first
  fetchLog,   \* the calls of requests.get so far, with their outcome
              \* (the text and the links of the page on success)
  output,     \* the lines printed so far
  results,    \* the list the last search call returned, dropped when crawl is called
  searched    \* Some(k) when results is what search(k) returned

vars == <<visited, index, stack, fetchLog, output, results, searched>>

\* dict operations on the sequence of items
Keys(d) == {d[i].url : i \in 1..Len(d)}

Get(d, url) == d[CHOOSE i \in 1..Len(d) : d[i].url = url].text

\* d[url] = text: an existing key keeps its position, a new key goes last
DictSet(d, url, text) ==
  IF url \in Keys(d)
  THEN [i \in 1..Len(d) |-> IF d[i].url = url THEN [url |-> url, text |-> text] ELSE d[i]]
  ELSE Append(d, [url |-> url, text |-> text])

\* A crawl invocation: its arguments, the links of its page it still has
\* to go through, and where it is in the body of crawl.
Frame(url, base_url) == [url |-> url, base_url |-> base_url, links |-> <<>>, pc |-> "enter"]

Top == stack[Len(stack)]

Callers == SubSeq(stack, 1, Len(stack) - 1)

\* print(f"Error crawling {url}: {e}")
ErrorLine(url, e) == "Error crawling " \o url \o ": " \o e

Init ==
  /\ visited = {}
  /\ index = <<>>
  /\ stack = <<>>
  /\ fetchLog = <<>>
  /\ output = <<>>
  /\ results = <<>>
  /\ searched = None

(***************************************************************************)
(* crawl                                                                   *)
(***************************************************************************)
\* crawl whose top call starts from an empty visited set.
Crawl_ResetsVisited(url, base_url) ==
  /\ stack = <<>>
  /\ stack' = <<Frame(url, base_url)>>
  /\ visited' = {}
  /\ results' = <<>>
  /\ searched' = None
  /\ UNCHANGED <<index, fetchLog, output>>

\* A caller (main, a test) calls crawler.crawl(url, base_url).
Crawl(url, base_url) ==
  /\ stack = <<>>
  /\ stack' = <<Frame(url, base_url)>>
  /\ results' = <<>>
  /\ searched' = None
  /\ UNCHANGED <<visited, index, fetchLog, output>>

\* crawl without the test of line 14: every call goes on to fetch.
CrawlEnter_NoVisitedCheck ==
  /\ stack # <<>>
  /\ Top.pc = "enter"
  /\ visited' = visited \cup {Top.url}
  /\ stack' = Append(Callers, [Top EXCEPT !.pc = "fetch"])
  /\ UNCHANGED <<index, fetchLog, output, results, searched>>

\* crawl that tests the index instead of the visited set at line 14.
CrawlEnter_TestsIndex ==
  /\ stack # <<>>
  /\ Top.pc = "enter"
  /\ IF Top.url \in Keys(index)
     THEN /\ stack' = Callers
          /\ UNCHANGED visited
     ELSE /\ visited' = visited \cup {Top.url}
          /\ stack' = Append(Callers, [Top EXCEPT !.pc = "fetch"])
  /\ UNCHANGED <<index, fetchLog, output, results, searched>>

\* crawl without line 16: the URL is never marked visited.
CrawlEnter_NoAdd ==
  /\ stack # <<>>
  /\ Top.pc = "enter"
  /\ IF Top.url \in visited
     THEN stack' = Callers
     ELSE stack' = Append(Callers, [Top EXCEPT !.pc = "fetch"])
  /\ UNCHANGED <<visited, index, fetchLog, output, results, searched>>

\* Lines 14-16: return when url was visited, else mark it visited.
CrawlEnter ==
  /\ stack # <<>>
  /\ Top.pc = "enter"
  /\ IF Top.url \in visited
     THEN /\ stack' = Callers
          /\ UNCHANGED visited
     ELSE /\ visited' = visited \cup {Top.url}
          /\ stack' = Append(Callers, [Top EXCEPT !.pc = "fetch"])
  /\ UNCHANGED <<index, fetchLog, output, results, searched>>

\* crawl with the index entry written before the fetch is known to succeed.
Fetch_IndexesFailure(r) ==
  /\ stack # <<>>
  /\ Top.pc = "fetch"
  /\ (r.ok => Top.url \in PageUrls)
  /\ fetchLog' = Append(fetchLog, [url |-> Top.url, ok |-> r.ok, text |-> r.text, links |-> r.links])
  /\ index' = DictSet(index, Top.url, r.text)
  /\ IF r.ok
     THEN /\ stack' = Append(Callers, [Top EXCEPT !.links = r.links, !.pc = "loop"])
          /\ UNCHANGED output
     ELSE /\ output' = Append(output, ErrorLine(Top.url, r.error))
          /\ stack' = Callers
  /\ UNCHANGED <<visited, results, searched>>

\* crawl without the except clause: the exception of requests.get unwinds
\* every nested invocation.
Fetch_Propagates(r) ==
  /\ stack # <<>>
  /\ Top.pc = "fetch"
  /\ (r.ok => Top.url \in PageUrls)
  /\ fetchLog' = Append(fetchLog, [url |-> Top.url, ok |-> r.ok, text |-> r.text, links |-> r.links])
  /\ IF r.ok
     THEN /\ index' = DictSet(index, Top.url, r.text)
          /\ stack' = Append(Callers, [Top EXCEPT !.links = r.links, !.pc = "loop"])
     ELSE /\ stack' = <<>>
          /\ UNCHANGED index
  /\ UNCHANGED <<visited, output, results, searched>>

\* Lines 19-21 and 29-30: requests.get(url) answers r.  A page is indexed
\* and its links are kept for the loop; an exception is reported and the
\* invocation returns.
Fetch(r) ==
  /\ stack # <<>>
  /\ Top.pc = "fetch"
  /\ (r.ok => Top.url \in PageUrls)
  /\ fetchLog' = Append(fetchLog, [url |-> Top.url, ok |-> r.ok, text |-> r.text, links |-> r.links])
  /\ IF r.ok
     THEN /\ index' = DictSet(index, Top.url, r.text)
          /\ stack' = Append(Callers, [Top EXCEPT !.links = r.links, !.pc = "loop"])
          /\ UNCHANGED output
     ELSE /\ output' = Append(output, ErrorLine(Top.url, r.error))
          /\ stack' = Callers
          /\ UNCHANGED index
  /\ UNCHANGED <<visited, results, searched>>

\* A loop that does not move on to the next link once the link is handled.
ExpandLink_SameLinkAgain ==
  /\ stack # <<>>
  /\ Top.pc = "loop"
  /\ Top.links # <<>>
  /\ LET href  == Head(Top.links)
         scope == Or(Top.base_url, Top.url)
     IN  IF ~Truthy(href)
         THEN /\ stack' = Append(Callers, [Top EXCEPT !.links = Tail(Top.links)])
              /\ UNCHANGED output
         ELSE IF Resolution[scope][href[1]].raises
         THEN /\ output' = Append(output, ErrorLine(Top.url, "Invalid IPv6 URL"))
              /\ stack' = Callers
         ELSE IF StartsWith(Resolution[scope][href[1]].url, scope)
         THEN /\ stack' = Append(stack, Frame(Resolution[scope][href[1]].url, Some(scope)))
              /\ UNCHANGED output
         ELSE /\ stack' = Append(Callers, [Top EXCEPT !.links = Tail(Top.links)])
              /\ UNCHANGED output
  /\ UNCHANGED <<visited, index, fetchLog, results, searched>>

\* A loop without the test of line 27: every resolved link is crawled.
ExpandLink_NoScopeTest ==
  /\ stack # <<>>
  /\ Top.pc = "loop"
  /\ Top.links # <<>>
  /\ LET href  == Head(Top.links)
         scope == Or(Top.base_url, Top.url)
         rest  == [Top EXCEPT !.links = Tail(Top.links)]
     IN  IF ~Truthy(href)
         THEN /\ stack' = Append(Callers, rest)
              /\ UNCHANGED output
         ELSE IF Resolution[scope][href[1]].raises
         THEN /\ output' = Append(output, ErrorLine(Top.url, "Invalid IPv6 URL"))
              /\ stack' = Callers
         ELSE /\ stack' = Append(Append(Callers, rest),
                                 Frame(Resolution[scope][href[1]].url, Some(scope)))
              /\ UNCHANGED output
  /\ UNCHANGED <<visited, index, fetchLog, results, searched>>

\* Lines 23-30: one iteration of the loop over the links of the page.
ExpandLink ==
  /\ stack # <<>>
  /\ Top.pc = "loop"
  /\ Top.links # <<>>
  /\ LET href  == Head(Top.links)
         scope == Or(Top.base_url, Top.url)
         rest  == [Top EXCEPT !.links = Tail(Top.links)]
     IN  IF ~Truthy(href)
         THEN \* if href: fails
              /\ stack' = Append(Callers, rest)
              /\ UNCHANGED output
         ELSE IF Resolution[scope][href[1]].raises
         THEN \* the ValueError of urljoin lands in the except clause
              /\ output' = Append(output, ErrorLine(Top.url, "Invalid IPv6 URL"))
              /\ stack' = Callers
         ELSE IF StartsWith(Resolution[scope][href[1]].url, scope)
         THEN /\ stack' = Append(Append(Callers, rest),
                                 Frame(Resolution[scope][href[1]].url, Some(scope)))
              /\ UNCHANGED output
         ELSE /\ stack' = Append(Callers, rest)
              /\ UNCHANGED output
  /\ UNCHANGED <<visited, index, fetchLog, results, searched>>

\* crawl that takes its URL out of the visited set when it returns.
CrawlReturn_Unmarks ==
  /\ stack # <<>>
  /\ Top.pc = "loop"
  /\ Top.links = <<>>
  /\ stack' = Callers
  /\ visited' = visited \ {Top.url}
  /\ UNCHANGED <<index, fetchLog, output, results, searched>>

\* The loop is over: crawl returns.
CrawlReturn ==
  /\ stack # <<>>
  /\ Top.pc = "loop"
  /\ Top.links = <<>>
  /\ stack' = Callers
  /\ UNCHANGED <<visited, index, fetchLog, output, results, searched>>

(***************************************************************************)
(* search                                                                  *)
(***************************************************************************)
\* search that lowers the text but not the keyword.
RECURSIVE search_KeywordNotLowered(_, _)
search_KeywordNotLowered(d, keyword) ==
  IF d = <<>> THEN <<>>
  ELSE IF Contains(Lower(Head(d).text), keyword)
       THEN <<Head(d).url>> \o search_KeywordNotLowered(Tail(d), keyword)
       ELSE search_KeywordNotLowered(Tail(d), keyword)

\* Lines 33-37: the URLs of the items whose text contains the keyword,
\* both lowered, in the order of the items.
RECURSIVE search(_, _)
search(d, keyword) ==
  IF d = <<>> THEN <<>>
  ELSE IF Contains(Lower(Head(d).text), Lower(keyword))
       THEN <<Head(d).url>> \o search(Tail(d), keyword)
       ELSE search(Tail(d), keyword)

\* search that stores the lowered text back into the index.
Search_LowersIndex(keyword) ==
  /\ stack = <<>>
  /\ results' = search(index, keyword)
  /\ searched' = Some(keyword)
  /\ index' = [i \in 1..Len(index) |-> [url |-> index[i].url, text |-> Lower(index[i].text)]]
  /\ UNCHANGED <<visited, stack, fetchLog, output>>

\* A caller calls crawler.search(keyword) while no crawl is running.
Search(keyword) ==
  /\ stack = <<>>
  /\ results' = search(index, keyword)
  /\ searched' = Some(keyword)
  /\ UNCHANGED <<visited, index, stack, fetchLog, output>>

\* print_results without the header line of line 41.
print_results_NoHeader(list) ==
  IF list # <<>>
  THEN [i \in 1..Len(list) |-> "- " \o list[i]]
  ELSE <<"No results found.">>

\* Lines 40-45: the lines print_results(results) prints.
print_results(list) ==
  IF list # <<>>
  THEN <<"Search results:">> \o [i \in 1..Len(list) |-> "- " \o list[i]]
  ELSE <<"No results found.">>

\* The calls of print_results that wrote to the output.
Printed(out) ==
  Cardinality({i \in 1..Len(out) : out[i] \in {"Search results:", "No results found."}})

MaxPrints == 1

\* A caller calls crawler.print_results(results) with the list the last
\* search returned (lines 53-54), while no crawl is running.
PrintResults ==
  /\ stack = <<>>
  /\ Printed(output) < MaxPrints
  /\ output' = output \o print_results(results)
  /\ UNCHANGED <<visited, index, stack, fetchLog, results, searched>>

Next ==
  \/ \E url \in CrawlUrls, base_url \in CrawlBases : Crawl(url, base_url)
  \/ CrawlEnter
  \/ \E r \in Responses : Fetch(r)
  \/ ExpandLink
  \/ CrawlReturn
  \/ \E keyword \in Keywords : Search(keyword)

Spec == Init /\ [][Next]_vars

\* crawl is synchronous: a running invocation takes its next step
\* (requests.get is taken to answer or raise).
CrawlStep ==
  \/ CrawlEnter
  \/ \E r \in Responses : Fetch(r)
  \/ ExpandLink
  \/ CrawlReturn

FairSpec == Spec /\ WF_vars(CrawlStep)

\* Lines 48-50: crawler = WebCrawler(); crawler.crawl(start_url), the
\* first call on a fresh engine, without base_url.
StartSession(seed) ==
  /\ visited = {}
  /\ Crawl(seed, None)

\* One session on a fresh engine: one crawl(seed), and searches.
SessionNext ==
  \/ \E seed \in CrawlUrls : StartSession(seed)
  \/ CrawlEnter
  \/ \E r \in Responses : Fetch(r)
  \/ ExpandLink
  \/ CrawlReturn
  \/ \E keyword \in Keywords : Search(keyword)

SessionSpec == Init /\ [][SessionNext]_vars

\* main (lines 47-54): a session whose results are printed.
MainNext ==
  \/ \E seed \in CrawlUrls : StartSession(seed)
  \/ CrawlEnter
  \/ \E r \in Responses : Fetch(r)
  \/ ExpandLink
  \/ CrawlReturn
  \/ \E keyword \in Keywords : Search(keyword)
  \/ PrintResults

MainSpec == Init /\ [][MainNext]_vars

(***************************************************************************)
(* Properties                                                              *)
(***************************************************************************)
FetchedUrls == {fetchLog[i].url : i \in 1..Len(fetchLog)}

FetchesOf(url) == {i \in 1..Len(fetchLog) : fetchLog[i].url = url}

\* C1 (dedup): whatever crawl calls were made and whatever the pages link
\* to, no URL was passed to requests.get more than once.
NoUrlFetchedTwice ==
  \A i, j \in 1..Len(fetchLog) : fetchLog[i].url = fetchLog[j].url => i = j

\* A link leads to a URL that was fetched before: the nested call is about
\* to be cut by the visited set.
RevisitCut ==
  /\ Len(stack) >= 2
  /\ Top.pc = "enter"
  /\ Top.url \in FetchedUrls

\* C2 (scope containment): each non-empty link of a fetched page is
\* resolved, and crawl is called on the resolved URL if and only if the
\* scope string is a literal prefix of it; so an invocation handles every
\* link of its page before it returns.
EveryLinkFollowedIffInScope ==
  [][(stack # <<>> /\ Top.pc = "loop") =>
       /\ (Top.links # <<>> /\ Truthy(Head(Top.links))) =>
            LET scope    == Or(Top.base_url, Top.url)
                resolved == urljoin(scope, Head(Top.links)[1])
            IN  (/\ Len(stack') = Len(stack) + 1
                 /\ stack'[Len(stack')].url = resolved
                 /\ stack'[Len(stack')].pc = "enter")
                <=> StartsWith(resolved, scope)
       /\ Len(stack') < Len(stack) => Top.links = <<>>]_vars

\* C3 (index completeness): when no crawl is running, every URL whose
\* fetch succeeded is a key of the index with the text of its page, and
\* every URL whose fetch failed is visited and is not a key of the index.
IndexComplete ==
  stack = <<>> =>
    \A i \in 1..Len(fetchLog) :
      IF fetchLog[i].ok
      THEN /\ fetchLog[i].url \in Keys(index)
           /\ Get(index, fetchLog[i].url) = fetchLog[i].text
      ELSE /\ fetchLog[i].url \notin Keys(index)
           /\ fetchLog[i].url \in visited

\* A session is over in which one fetch succeeded and another failed.
SessionWithSuccessAndFailure ==
  /\ stack = <<>>
  /\ \E i, j \in 1..Len(fetchLog) : fetchLog[i].ok /\ ~fetchLog[j].ok

\* C4 (failure isolation): a failing fetch makes only its own invocation
\* return; the callers are left exactly as the return of a page without
\* links would leave them, each with its remaining links, and neither the
\* visited set nor the index changes.
FailureIsolated ==
  [][(/\ stack # <<>>
      /\ Top.pc = "fetch"
      /\ Len(fetchLog') = Len(fetchLog) + 1
      /\ ~fetchLog'[Len(fetchLog')].ok)
     => /\ stack' = Callers
        /\ visited' = visited
        /\ index' = index]_vars

\* The first link of the seed page failed to load and the crawl went on
\* to the next link of the seed page.
SiblingCrawledAfterFailure ==
  /\ Len(stack) = 2
  /\ Len(fetchLog) = 2
  /\ fetchLog[1].url = stack[1].url
  /\ fetchLog[1].ok
  /\ ~fetchLog[2].ok
  /\ Top.pc = "fetch"
  /\ Top.url # fetchLog[2].url

\* The lines of the output that report a failure for url.
ReportsNaming(url) ==
  {i \in 1..Len(output) : StartsWith(output[i], "Error crawling " \o url \o ": ")}

\* C5 (failure reporting): there is exactly one failure report for each
\* URL whose fetch failed, and none for a URL whose fetch succeeded (none
\* for a URL that is in the index).
OneReportPerFailedFetch ==
  /\ \A url \in FetchedUrls :
       Cardinality(ReportsNaming(url)) =
         Cardinality({i \in FetchesOf(url) : ~fetchLog[i].ok})
  /\ \A url \in Keys(index) : ReportsNaming(url) = {}

OccursIgnoringCase(text, k) ==
  \E i \in 0..(Len(text) - Len(k)) :
    \A j \in 1..Len(k) : LowerChar(Char(text, i + j)) = LowerChar(Char(k, j))

\* C7 (search): search(k) returns exactly the keys of the index whose text
\* contains k ignoring case, each once; so search("") returns every key
\* and a search of the empty index returns the empty list.
SearchCorrect ==
  searched # None =>
    /\ {results[i] : i \in 1..Len(results)} =
         {url \in Keys(index) : OccursIgnoringCase(Get(index, url), searched[1])}
    /\ \A i, j \in 1..Len(results) : results[i] = results[j] => i = j
    /\ searched[1] = "" => {results[i] : i \in 1..Len(results)} = Keys(index)
    /\ index = <<>> => results = <<>>

\* A keyword in capitals was searched in an index where it matches some
\* texts and not others.
SearchSomeMatch ==
  /\ searched = Some("WORLD")
  /\ results # <<>>
  /\ Len(results) < Len(index)

\* C8 (search has no side effect): a search call leaves the visited set
\* and the index as they are, and a second search of the same keyword
\* right after the first returns the same list.
SearchChangesNothing ==
  [][searched' # None =>
       /\ visited' = visited
       /\ index' = index
       /\ searched' = searched => results' = results]_vars

\* A search returned matches from a non-empty index.
SearchedAfterCrawl ==
  /\ searched # None
  /\ results # <<>>
  /\ visited # {}

\* C9 (already-visited no-op): crawl called on a visited URL returns at
\* once, whatever the base: nothing is fetched, nothing is printed, and
\* the visited set and the index are unchanged.
VisitedUrlIsNoOp ==
  [][(stack # <<>> /\ Top.pc = "enter" /\ Top.url \in visited) =>
       /\ stack' = Callers
       /\ fetchLog' = fetchLog
       /\ output' = output
       /\ visited' = visited
       /\ index' = index]_vars

\* A caller calls crawl with an explicit base on a URL whose fetch failed
\* in an earlier call.
CallOnVisitedUrl ==
  /\ Len(stack) = 1
  /\ Top.pc = "enter"
  /\ Top.base_url = Some(ExampleCom)
  /\ Top.url \in visited
  /\ Top.url \notin Keys(index)

\* C10 (reserve before fetch): a URL is in the visited set from before its
\* fetch is attempted, while its links are crawled, and after the fetch
\* whatever its outcome, the empty URL included.
ReservedBeforeFetch ==
  /\ \A i \in 1..Len(stack) : stack[i].pc \in {"fetch", "loop"} => stack[i].url \in visited
  /\ \A i \in 2..Len(stack) : stack[i - 1].url \in visited
  /\ FetchedUrls \subseteq visited

\* The fetch of the empty URL is about to be attempted.
EmptyUrlAboutToBeFetched ==
  /\ stack # <<>>
  /\ Top.pc = "fetch"
  /\ Top.url = ""

\* The lines a step appended to the output.
Appended == SubSeq(output', Len(output) + 1, Len(output'))

\* C11 (result listing): a call of print_results appends to the output
\* the single line 'No results found.' exactly when the result list is
\* empty, and otherwise the header 'Search results:' followed by one
\* '- <url>' line per result, in the order of the list.
PrintResultsFormat ==
  [][(stack = <<>> /\ output' # output) =>
       /\ SubSeq(output', 1, Len(output)) = output
       /\ (results = <<>>) <=> (Appended = <<"No results found.">>)
       /\ results # <<>> =>
            /\ Len(Appended) = Len(results) + 1
            /\ Appended[1] = "Search results:"
            /\ \A i \in 1..Len(results) : Appended[i + 1] = "- " \o results[i]]_vars

\* The two results of a search have been printed under the header.
TwoResultsPrinted ==
  /\ Len(results) = 2
  /\ Len(output) >= 3
  /\ output[Len(output) - 2] = "Search results:"
  /\ output[Len(output) - 1] = "- " \o results[1]
  /\ output[Len(output)] = "- " \o results[2]

\* Lines 26-28: the scope `base_url or url` an invocation resolves its
\* links against and tests them with.
EffectiveScope(f) == Or(f.base_url, f.url)

\* C12 (fixed scope): in a session started by crawl(seed) without
\* base_url, every invocation that expands links uses the scope of the
\* top call, whatever the seed string.
ScopeFixedInSession ==
  \A i \in 1..Len(stack) :
    (stack[1].base_url = None /\ stack[i].pc = "loop") =>
      EffectiveScope(stack[i]) = EffectiveScope(stack[1])

\* C16 (visited-set monotonicity): no step of crawl or search takes a URL
\* out of the visited set.
VisitedOnlyGrows == [][visited \subseteq visited']_vars

\* A second crawl call runs on an engine that has visited several URLs.
SecondCallOnUsedEngine ==
  /\ Len(stack) = 1
  /\ Top.pc = "fetch"
  /\ Cardinality(visited) >= 3
  /\ Cardinality(FetchedUrls) >= 2

\* C17 (index write-once): a successful fetch writes the index entry of
\* a URL that has none yet, and no step changes or removes an entry the
\* index holds.
IndexWrittenOnce ==
  [][/\ \A k \in Keys(index) : k \in Keys(index') /\ Get(index', k) = Get(index, k)
     /\ (fetchLog' # fetchLog /\ fetchLog'[Len(fetchLog')].ok) =>
          /\ fetchLog'[Len(fetchLog')].url \notin Keys(index)
          /\ Keys(index') = Keys(index) \cup {fetchLog'[Len(fetchLog')].url}]_vars

\* A later page links back to the first indexed URL: crawl is called on
\* it again.
CalledAgainOnIndexedUrl ==
  /\ Len(index) >= 2
  /\ Len(stack) >= 2
  /\ Top.pc = "enter"
  /\ Top.url = index[1].url

\* The seed of the session: the url of its top call.
SessionSeed == IF stack # <<>> THEN stack[1].url ELSE fetchLog[1].url

\* C18 (visited under the seed): in the session crawl(seed) starts on a
\* fresh engine without base_url, every visited URL, and so every index
\* key, begins with the seed string, and every index key is visited.
VisitedUnderSeed ==
  /\ \A u \in visited : StartsWith(u, SessionSeed)
  /\ \A k \in Keys(index) : StartsWith(k, SessionSeed)
  /\ Keys(index) \subseteq visited

\* The session of seed https://example.com has indexed the page of
\* https://example.com.evil.com, and the link to an outside host was left.
LookalikeHostIndexed ==
  /\ visited # {}
  /\ SessionSeed = ExampleCom
  /\ "https://example.com.evil.com" \in Keys(index)
  /\ \E i \in 1..Len(fetchLog) :
       /\ fetchLog[i].ok
       /\ \E j \in 1..Len(fetchLog[i].links) :
            fetchLog[i].links[j] = Some("https://www.external.com")

\* The in-scope link graph of the session, as far as the fetches have
\* shown it: the resolved URLs of the non-empty links of the page
\* fetched at u that begin with the scope, in page order.  The scope of
\* the session is the one its top call establishes, the seed.
InScopeTargets(links, scope) ==
  Bind(SelectSeq(links, LAMBDA h : /\ Truthy(h)
                                   /\ ~Resolution[scope][h[1]].raises
                                   /\ StartsWith(Resolution[scope][h[1]].url, scope)),
       LAMBDA keep : [i \in 1..Len(keep) |-> Resolution[scope][keep[i][1]].url])

SuccessfulFetchesOf(u) == {i \in FetchesOf(u) : fetchLog[i].ok}

LinkTargets(u) ==
  IF SuccessfulFetchesOf(u) = {} THEN <<>>
  ELSE InScopeTargets(fetchLog[CHOOSE i \in SuccessfulFetchesOf(u) : TRUE].links, SessionSeed)

Range(s) == {s[i] : i \in 1..Len(s)}

\* The least set that includes S and the link targets of its members.
RECURSIVE Closure(_)
Closure(S) ==
  Bind(S \cup UNION {Range(LinkTargets(u)) : u \in S},
       LAMBDA T : IF T = S THEN S ELSE Closure(T))

ReachableInScope == Closure({SessionSeed})

\* C13 (traversal completeness): when the session of crawl(seed) on a
\* fresh engine has ended, the visited set is the least set that holds
\* the seed and, with every successfully fetched member, the in-scope
\* resolved URLs of the non-empty links of its page.
TraversalComplete ==
  (stack = <<>> /\ visited # {}) => visited = ReachableInScope

\* The URLs fetched so far, in the order of the fetches.
FetchSequence == [i \in 1..Len(fetchLog) |-> fetchLog[i].url]

\* Depth-first preorder with the visited-set cutoff: done is the sequence
\* of the URLs reached before; u is skipped when it is among them, else it
\* comes next, followed by what each of its link targets reaches, in page
\* order.
RECURSIVE Preorder(_, _), PreorderOfLinks(_, _)
Preorder(u, done) ==
  IF u \in Range(done) THEN done
  ELSE Bind(Append(done, u), LAMBDA d : PreorderOfLinks(LinkTargets(u), d))

PreorderOfLinks(targets, done) ==
  IF targets = <<>> THEN done
  ELSE Bind(Preorder(Head(targets), done),
            LAMBDA d : PreorderOfLinks(Tail(targets), d))

IsPrefix(s, t) == Len(s) <= Len(t) /\ SubSeq(t, 1, Len(s)) = s

\* C14 (depth-first document order): at every moment of the session the
\* fetches made so far are the beginning of the depth-first preorder of
\* the in-scope link graph from the seed, links in page order and cut at
\* URLs reached before; when the session has ended they are the whole of
\* it.
FetchesInDepthFirstOrder ==
  visited # {} =>
    /\ IsPrefix(FetchSequence, Preorder(SessionSeed, <<>>))
    /\ stack = <<>> => FetchSequence = Preorder(SessionSeed, <<>>)

\* C15 as stated (recursion depth bound): the number of crawl invocations
\* on the stack never exceeds the number of distinct reachable in-scope
\* URLs.
DepthWithinReachable ==
  stack # <<>> => Len(stack) <= Cardinality(ReachableInScope)

\* The invocations that have passed the visited test of line 14.
Admitted == {i \in 1..Len(stack) : stack[i].pc # "enter"}

\* C15 as amended: the invocations below the top of the stack have passed
\* the visited test and are invocations of pairwise distinct visited URLs;
\* only the top one may still be before the test, where it returns at once
\* when its URL is visited.  So the depth never exceeds the number of
\* visited URLs plus one, and with a non-empty seed, where the visited
\* URLs are reachable in-scope URLs, the number of those plus one.
DepthWithinVisitedPlusOne ==
  /\ \A i \in 1..Len(stack) - 1 : i \in Admitted
  /\ \A i, j \in Admitted : stack[i].url = stack[j].url => i = j
  /\ \A i \in Admitted : stack[i].url \in visited
  /\ Len(stack) <= Cardinality(visited) + 1
  /\ (stack # <<>> /\ SessionSeed # "") =>
       /\ visited \subseteq ReachableInScope
       /\ Cardinality(Admitted) <= Cardinality(ReachableInScope)
       /\ Len(stack) <= Cardinality(ReachableInScope) + 1

\* Two pages link to each other: the stack holds the invocations of both
\* and, on top, a third that is about to return at the visited test.
ThirdEntryOnCycle ==
  /\ Len(stack) = 3
  /\ stack[1].url = ExampleCom
  /\ stack[2].url = "https://example.com/about"
  /\ stack[3].url = ExampleCom
  /\ stack[3].pc = "enter"
  /\ ReachableInScope = {ExampleCom, "https://example.com/about"}

====
